---- MODULE Spec2Model ----
(***************************************************************************)
(* Terrain-graph generator and heuristic best-first pathfinder of          *)
(* utils/dijkstra.js (src/unnamed/part_000, lines 1-513).                  *)
(*                                                                         *)
(* Numbers.  JavaScript doubles are modelled in fixed point: a weight, a   *)
(* cost or a priority is an integer count of 1/100000 units, so that the   *)
(* band coefficients of the generator (0.5, 2.5, 10, 28.33), the 0.8       *)
(* heuristic factor and the 0.5 budget factor are all exact.  Noise values *)
(* are integer thousandths.  Node keys are the strings the code builds     *)
(* ("x,y").  A JavaScript Set or Map iterated by the code is a sequence    *)
(* in insertion order wherever the order can be observed.                  *)
(***************************************************************************)
EXTENDS Integers, Sequences, FiniteSets, TLC

\* Bounds of the input space: the test grids are at most MaxW x MaxH, the
\* predecessor maps of the path specification are over MaxPathKeys keys, the
\* generator specification observes MaxCalls calls, the worker is sent
\* MaxMessages messages, and the queue specification holds MaxQueue entries.
MaxW == 3
MaxH == 3
MaxPathKeys == 3
MaxCalls == 3
MaxMessages == 3
MaxQueue == 5

VARIABLES
    nodes,              \* Map key -> {x, y, weight}: the graph given to the searches
    edges,              \* Map key -> Set of neighbour keys (insertion order)
    pc,                 \* where control is: idle, inside a search loop, returned, threw, hung
    call,               \* the running (or last) call and its arguments
    gCost,              \* search-local Map key -> cost from start
    previous,           \* search-local Map key -> predecessor key or null
    visited,            \* search-local Set of closed keys (insertion order)
    pq,                 \* PriorityQueue.heap
    nodesExplored,      \* batch: nodes popped and newly closed
    maxNodesToExplore,  \* batch: exploration budget, in halves of a node
    animationSteps,     \* animated: the step trace
    lastVisitedSize,    \* animated: visited.size at the previous explore step
    result,             \* the value the call returned
    perlin,             \* this.seed of the PerlinNoise instance made last, <<>> before any
    generated,          \* history: the generateGraphStructure calls that returned, with their results
    inbox,              \* worker: the messages delivered to the worker, oldest first
    handled,            \* worker: how many of them onmessage has run for
    outbox              \* worker: the replies posted with self.postMessage, oldest first

vars == <<nodes, edges, pc, call, gCost, previous, visited, pq, nodesExplored,
          maxNodesToExplore, animationSteps, lastVisitedSize, result,
          perlin, generated, inbox, handled, outbox>>

generatorVars == <<perlin, generated>>
workerVars == <<inbox, handled, outbox>>

searchVars == <<gCost, previous, visited, pq, nodesExplored, maxNodesToExplore,
                animationSteps, lastVisitedSize>>

----------------------------------------------------------------------------
(* Values *)

\* m thousandths as a fixed-point number (1/100000 units).
Milli(m) == m * 100

\* JavaScript's Infinity: above every cost a run can reach.
Infinity == 2000000000

Null == "null"
Undefined == "undefined"

\* JavaScript truthiness of a key, null or undefined (while (current)).
Truthy(v) == v \notin {Null, Undefined, ""}

Abs(n) == IF n < 0 THEN -n ELSE n
Min(a, b) == IF a < b THEN a ELSE b
Max(a, b) == IF a > b THEN a ELSE b

\* The double NaN.  Every comparison with it is false; it stands below every
\* number of the model, so that `w >= c` is false for it as in the code.
NaN == -2000000000

\* Math.max and Math.min: NaN if either argument is NaN.
MathMax(a, b) == IF a = NaN \/ b = NaN THEN NaN ELSE Max(a, b)
MathMin(a, b) == IF a = NaN \/ b = NaN THEN NaN ELSE Min(a, b)

EmptyMap == [k \in {} |-> Null]

\* Map.prototype.get: undefined for an absent key.
MapGet(map, k) == IF k \in DOMAIN map THEN map[k] ELSE Undefined

\* Map.prototype.set.
MapSet(map, k, v) == [j \in DOMAIN map \cup {k} |-> IF j = k THEN v ELSE map[j]]

InSeq(x, s) == \E i \in 1..Len(s) : s[i] = x

\* Template literal `${x},${y}`.
NodeKey(x, y) == ToString(x) \o "," \o ToString(y)

\* No call is running: a call may be made.
Callable == pc = "idle"

\* A call that makes no search leaves no search state behind.
NoSearchState ==
    /\ gCost' = EmptyMap
    /\ previous' = EmptyMap
    /\ visited' = <<>>
    /\ pq' = <<>>
    /\ nodesExplored' = 0
    /\ maxNodesToExplore' = 0
    /\ animationSteps' = <<>>
    /\ lastVisitedSize' = 0

----------------------------------------------------------------------------
(* PriorityQueue: a binary min-heap in an array; indices are 0-based as in  *)
(* the code, heap[i] of the code is heap[i + 1] here.                       *)

\* In the recursive definitions below the arguments are taken as values
\* first (heap \in {array} binds heap to the value of array), so that an
\* argument is evaluated once however often the body reads it.
Swap(heap, i, j) == [heap EXCEPT ![i + 1] = heap[j + 1], ![j + 1] = heap[i + 1]]

RECURSIVE bubbleUp(_, _)
bubbleUp(array, from) ==
    CHOOSE sifted \in
        {IF index > 0
         THEN LET parentIndex == (index - 1) \div 2
              IN  IF heap[parentIndex + 1].priority <= heap[index + 1].priority
                  THEN heap
                  ELSE bubbleUp(Swap(heap, parentIndex, index), parentIndex)
         ELSE heap : heap \in {array}, index \in {from}} : TRUE

\* Mutant: the sift-down looks at the left child only.
RECURSIVE bubbleDownLeftOnly(_, _)
bubbleDownLeftOnly(heap, index) ==
    LET leftChild == 2 * index + 1
        smallest == IF leftChild < Len(heap)
                       /\ heap[leftChild + 1].priority < heap[index + 1].priority
                    THEN leftChild ELSE index
    IN  IF smallest = index
        THEN heap
        ELSE bubbleDownLeftOnly(Swap(heap, index, smallest), smallest)

RECURSIVE bubbleDown(_, _)
bubbleDown(array, from) ==
    CHOOSE sifted \in
        {LET leftChild == 2 * index + 1
             rightChild == 2 * index + 2
             s1 == IF leftChild < Len(heap)
                      /\ heap[leftChild + 1].priority < heap[index + 1].priority
                   THEN leftChild ELSE index
             smallest == IF rightChild < Len(heap)
                            /\ heap[rightChild + 1].priority < heap[s1 + 1].priority
                         THEN rightChild ELSE s1
         IN  IF smallest = index
             THEN heap
             ELSE bubbleDown(Swap(heap, index, smallest), smallest)
         : heap \in {array}, index \in {from}} : TRUE

enqueue(heap, element, priority) ==
    bubbleUp(Append(heap, [element |-> element, priority |-> priority]), Len(heap))

\* Mutant: the least entry is read and left in the heap.
dequeueLeavesEntry(heap) ==
    IF Len(heap) = 0
    THEN [min |-> Null, heap |-> <<>>]
    ELSE [min |-> heap[1], heap |-> heap]

\* dequeue: the entry returned (min) and the heap left.  On an empty heap
\* null is returned and the heap stays empty.
dequeue(heap) ==
    IF Len(heap) = 0
    THEN [min |-> Null, heap |-> <<>>]
    ELSE IF Len(heap) = 1
         THEN [min |-> heap[1], heap |-> <<>>]
         ELSE [min |-> heap[1],
               heap |-> bubbleDown([SubSeq(heap, 1, Len(heap) - 1)
                                       EXCEPT ![1] = heap[Len(heap)]], 0)]

isEmpty(heap) == Len(heap) = 0

----------------------------------------------------------------------------
(* Grid graphs *)

Cells(width, height) == (0 .. width - 1) \X (0 .. height - 1)

\* The cells in the order the two nested loops (x outside, y inside) reach
\* them: the i-th cell, counted from 1.
CellX(i, height) == (i - 1) \div height
CellY(i, height) == (i - 1) % height

\* The Map after map.set(keys[i], values[i]) for i = lo .. hi (the range is
\* halved to keep the evaluation shallow).
RECURSIVE MapFrom(_, _, _, _)
MapFrom(keys, values, lo, hi) ==
    IF lo > hi
    THEN EmptyMap
    ELSE IF lo = hi
         THEN keys[lo] :> values[lo]
         ELSE MapFrom(keys, values, lo, (lo + hi) \div 2)
                  @@ MapFrom(keys, values, (lo + hi) \div 2 + 1, hi)

\* The keys `${x},${y}` in loop order.
CellKeys(width, height) ==
    [i \in 1 .. width * height |-> NodeKey(CellX(i, height), CellY(i, height))]

\* The node loop of generateGraphStructure: one node per cell, keyed
\* `${x},${y}`, its weight floored at 0.1.  weights[<<x, y>>] is the weight
\* the cell would get before the floor.
GridNodes(width, height, weights) ==
    MapFrom(CellKeys(width, height),
            [i \in 1 .. width * height |->
                [x |-> CellX(i, height),
                 y |-> CellY(i, height),
                 weight |-> MathMax(Milli(100),
                                   weights[<<CellX(i, height), CellY(i, height)>>])]],
            1, width * height)

\* The four directions in the order the code adds them: left, right, up, down.
directions == << [dx |-> -1, dy |-> 0], [dx |-> 1, dy |-> 0],
                 [dx |-> 0, dy |-> -1], [dx |-> 0, dy |-> 1] >>

\* The connections Set of cell (x, y), in insertion order.
Connections(x, y, width, height) ==
    LET inb(i) == /\ x + directions[i].dx >= 0
                  /\ x + directions[i].dx < width
                  /\ y + directions[i].dy >= 0
                  /\ y + directions[i].dy < height
        key(i) == NodeKey(x + directions[i].dx, y + directions[i].dy)
        add(s, i) == IF inb(i) THEN Append(s, key(i)) ELSE s
    IN  add(add(add(add(<<>>, 1), 2), 3), 4)

\* The edge loop of generateGraphStructure.
GridEdges(width, height) ==
    MapFrom(CellKeys(width, height),
            [i \in 1 .. width * height |->
                Connections(CellX(i, height), CellY(i, height), width, height)],
            1, width * height)

----------------------------------------------------------------------------
(* generateGraphStructure *)

\* The modulus of the seeded generator.
Modulus == 233280

\* t * 9301 modulo the modulus, for t >= 0.  The product is taken in two
\* parts (9301 = 93 * 100 + 1) so that it stays within 32-bit integers.
TimesMultiplier(t) ==
    ((((t * 93) % Modulus) * 100) + t) % Modulus

\* PerlinNoise.seededRandom: the value this.seed takes,
\* (seed * 9301 + 49297) % 233280.  The remainder operator of JavaScript
\* takes the sign of the dividend: seed * 9301 + 49297 is negative from
\* seed = -6 downwards, and the remainder is then zero or negative.
seededRandom(seed) ==
    IF seed >= 0
    THEN (TimesMultiplier(seed) + 49297) % Modulus
    ELSE IF seed >= -5
         THEN seed * 9301 + 49297
         ELSE 0 - ((TimesMultiplier(0 - seed) - 49297) % Modulus)

\* The index a draw gives at position i:
\* Math.floor(this.seededRandom() * (i + 1)), where the draw is next / 233280.
\* The floor of the double product is the integer quotient below, rounded
\* towards minus infinity (they can differ, by one, only where the quotient
\* is exact, which no state of a seed used here meets).
swapIndex(next, i) ==
    IF next >= 0
    THEN (next * (i + 1)) \div Modulus
    ELSE 0 - (((0 - next) * (i + 1) + Modulus - 1) \div Modulus)

\* [p[i], p[j]] = [p[j], p[i]]: both elements are read, then both written.
\* An index the array does not hold reads as undefined, and writing it adds a
\* property under that key.
swap(p, i, j) ==
    IF j \in DOMAIN p
    THEN [p EXCEPT ![i] = p[j], ![j] = p[i]]
    ELSE MapSet(MapSet(p, i, Undefined), j, p[i])

\* One pass of the shuffle loop of generatePermutation at index i:
\* j = Math.floor(this.seededRandom() * (i + 1)), then p[i] and p[j] change
\* places.  g is the instance: this.seed and the array p.
shuffleStep(g, i) ==
    LET next == seededRandom(g.seed)
    IN  [seed |-> next,
         permutation |-> swap(g.permutation, i, swapIndex(next, i))]

\* The shuffle loop for i = hi down to lo (the range is halved, and the
\* instance after the upper half is read before the lower half begins, to keep
\* the evaluation shallow).
RECURSIVE shuffle(_, _, _)
shuffle(g, hi, lo) ==
    IF hi < lo
    THEN g
    ELSE IF hi = lo
         THEN shuffleStep(g, hi)
         ELSE LET mid == (hi + lo) \div 2
                  upper == shuffle(g, hi, mid + 1)
              IN  IF upper.seed > 0 - Modulus
                  THEN shuffle(upper, mid, lo)
                  ELSE upper

\* Mutant: the generator goes on from the seed the last instance was left
\* with, instead of starting from the seed it is given.
PerlinNoiseKeepsSeed(seed) ==
    shuffle([seed |-> IF perlin = <<>> THEN seed ELSE perlin[1],
             permutation |-> [i \in 0 .. 255 |-> i]], 255, 1)

\* new PerlinNoise(seed): this.seed = seed, then generatePermutation(): the
\* array 0 .. 255 shuffled for i = 255 down to 1.  The second half of the
\* permutation array repeats the first: p[256 + i] = p[i] is read here as
\* p[i % 256].
PerlinNoise(seed) ==
    shuffle([seed |-> seed, permutation |-> [i \in 0 .. 255 |-> i]], 255, 1)

\* The value of perlin.fractalNoise for a cell, in thousandths.  The gradient
\* noise itself is floating-point work that is not reproduced: the generator
\* is given by its results, a table of values in [-1, 1] that covers the four
\* weight bands and their boundaries, read at a place fixed by the
\* permutation of the instance (hashed as noise() hashes it: p[p[X] + Y]),
\* the detail and the cell.
NoiseValues == <<-1000, -301, -300, 0, 99, 100, 399, 400, 1000>>
RoadValues == <<300, 0, -49, 50, -700>>

\* A detail near the largest double (1.7e308), the largest the model holds.
\* With it the scale detail * 0.05 doubles to 6.8e307 in the fourth octave, and
\* x * frequency is Infinity for every coordinate from 3 on.
HugeDetail == 2000000000

\* noise(x * frequency, y * frequency) with an infinite coordinate:
\* x -= Math.floor(x) is Infinity - Infinity, NaN, and so is all that is
\* computed from it.
NoiseIsNaN(detail, x, y) == detail = HugeDetail /\ (x >= 3 \/ y >= 3)

fractalNoise(instance, detail, x, y) ==
    LET hash == instance.permutation[(instance.permutation[x % 256] + y) % 256]
    IN  IF NoiseIsNaN(detail, x, y)
        THEN NaN
        ELSE NoiseValues[((hash + detail) % Len(NoiseValues)) + 1]

roadNoise(instance, detail, x, y) ==
    LET hash == instance.permutation[(instance.permutation[y % 256] + x) % 256]
    IN  RoadValues[((hash + detail) % Len(RoadValues)) + 1]

\* Lines 194-214: the weight of a cell from its noise value (thousandths) and
\* its road noise, before the floor of line 219.
BandWeight(noiseValue, road) ==
    LET weight ==
            IF noiseValue = NaN THEN NaN
            ELSE IF noiseValue < -300 THEN Milli(100) + (noiseValue + 300) * 50
            ELSE IF noiseValue < 100 THEN Milli(500) + noiseValue * 250
            ELSE IF noiseValue < 400 THEN Milli(2000) + (noiseValue - 100) * 1000
            ELSE Milli(8000) + (noiseValue - 400) * 2833
    IN  IF Abs(road) < 50 THEN MathMin(weight, Milli(300)) ELSE weight

\* The arguments of a call, as the list the caller wrote: gridWidth alone, or
\* gridWidth, gridHeight, seed, detail (detail in thousandths).
ArgHeightGiven(args) == Len(args) >= 2
ArgSeed(args) == IF Len(args) >= 3 THEN args[3] ELSE 42
ArgDetail(args) == IF Len(args) >= 4 THEN args[4] ELSE 1000

\* Line 161: gridHeight === null || (typeof gridHeight === 'number' && gridHeight < 10).
OldSquareFormat(args) == ~ArgHeightGiven(args) \/ args[2] < 10

\* The height the loops run over: inside the backward-compatibility branch
\* gridHeight = gridSize = gridWidth.
usedHeight(args) == IF OldSquareFormat(args) THEN args[1] ELSE args[2]

\* A call of generateGraphStructure.  The function is an arrow function, so
\* the `arguments` it reads inside the backward-compatibility branch is not its
\* own: in a plain ES module no such binding exists and the read throws a
\* ReferenceError ("unbound"); under a build that wraps the module in a
\* function it is that wrapper's arguments, whose entries 1 and 2 are not
\* numbers, so seed and detail stay as passed ("wrapper").
generateGraphStructure(args, argumentsBinding) ==
    /\ Callable
    /\ call' = [op |-> "generateGraphStructure", args |-> args]
    /\ NoSearchState
    /\ IF OldSquareFormat(args) /\ argumentsBinding = "unbound"
       THEN /\ result' = Null
            /\ pc' = "threw"
            /\ UNCHANGED perlin
       ELSE \E generator \in {PerlinNoise(ArgSeed(args))} :
                /\ result' =
                      [nodes |-> GridNodes(args[1], usedHeight(args),
                                           [c \in Cells(args[1], usedHeight(args)) |->
                                               BandWeight(
                                                   fractalNoise(generator, ArgDetail(args),
                                                                c[1], c[2]),
                                                   roadNoise(generator, ArgDetail(args),
                                                             c[1], c[2]))]),
                       edges |-> GridEdges(args[1], usedHeight(args))]
                /\ perlin' = <<generator.seed>>
                /\ pc' = "returned"
    /\ UNCHANGED <<nodes, edges, workerVars>>

\* A call that is not observed: the history is left as it is.
generateGraphStructureCall(args, argumentsBinding) ==
    /\ generateGraphStructure(args, argumentsBinding)
    /\ UNCHANGED generated

\* A call that is observed: each call that returns is written down with
\* what it returned, up to MaxCalls of them.
generateGraphStructureObserved(args, argumentsBinding) ==
    /\ Len(generated) < MaxCalls
    /\ generateGraphStructure(args, argumentsBinding)
    /\ generated' = IF pc' = "returned"
                    THEN Append(generated, [args |-> args, result |-> result'])
                    ELSE generated

\* Mutant: a search that empties the connection Sets it has been given.
GraphConnectionsCleared ==
    /\ nodes' = nodes
    /\ edges' = [k \in DOMAIN edges |-> <<>>]

\* What the searches do to the graph they are given: the nodes and edges
\* Maps are only read (nodes.get, nodes.has, nodes.size, edges.get); no line
\* of dijkstraGraph, dijkstraGraphAnimated, reconstructGraphPath or
\* findShortestGraphPath sets or deletes an entry or writes to a node.
GraphOnlyRead == UNCHANGED <<nodes, edges>>

----------------------------------------------------------------------------
(* reconstructGraphPath *)

\* Mutant: the keys are added at the back of the path (push for unshift).
RECURSIVE walkBackPush(_, _, _)
walkBackPush(prev, current, path) ==
    IF ~Truthy(current)
    THEN [halts |-> TRUE, path |-> path]
    ELSE IF InSeq(current, path)
         THEN [halts |-> FALSE, path |-> path]
         ELSE walkBackPush(prev, MapGet(prev, current), path \o <<current>>)

\* while (current): the walk goes on while current is a key and the walk is
\* not stuck.
walkGoesOn(w) == Truthy(w.current) /\ ~w.stuck

\* One turn of the loop: path.unshift(current); current = previous.get(current).
\* A walk that comes back to a key it already holds can never leave the loop
\* (the map is not changed by the walk): it is stuck, and so it stays.
walkTurn(prev, w) ==
    IF InSeq(w.current, w.path)
    THEN [w EXCEPT !.stuck = TRUE]
    ELSE [current |-> MapGet(prev, w.current),
          path |-> <<w.current>> \o w.path,
          stuck |-> FALSE]

\* The loop run for at most n turns from w.  The range is halved and the first
\* half is run before the second is begun.
RECURSIVE walkTurns(_, _, _)
walkTurns(prev, w, n) ==
    IF n > 1 /\ walkGoesOn(w)
    THEN CHOOSE walked \in
             {walkTurns(prev, half, n - (n \div 2)) :
                  half \in {walkTurns(prev, w, n \div 2)}} : TRUE
    ELSE IF walkGoesOn(w) THEN walkTurn(prev, w) ELSE w

\* The while (current) loop.  A walk that does not get stuck takes a key of
\* prev at every turn but the first and the last, each key once: it is over
\* within Cardinality(DOMAIN prev) + 2 turns.  halts is FALSE for a walk that
\* is stuck.
walkBack(prev, key, keys) ==
    CHOOSE walked \in
        {[halts |-> ~w.stuck, path |-> w.path] :
             w \in {walkTurns(links, [current |-> key, path |-> keys, stuck |-> FALSE],
                               Cardinality(DOMAIN links) + 2) : links \in {prev}}} : TRUE

\* Mutant: the final test against startKey is dropped.
reconstructGraphPathNoStartTest(prev, startKey, endKey) ==
    walkBack(prev, endKey, <<>>)

reconstructGraphPath(prev, startKey, endKey) ==
    LET w == walkBack(prev, endKey, <<>>)
    IN  IF w.halts
        THEN [halts |-> TRUE,
              path |-> IF Len(w.path) > 0 /\ w.path[1] = startKey THEN w.path ELSE <<>>]
        ELSE [halts |-> FALSE, path |-> <<>>]

----------------------------------------------------------------------------
(* What both searches share *)

\* |a.x - b.x| + |a.y - b.y| of two nodes of the graph.
Manhattan(a, b) == Abs(nodes[a].x - nodes[b].x) + Abs(nodes[a].y - nodes[b].y)

\* manhattanDistance(nodeKey): distance * 0.8.
manhattanDistance(nodeKey, endKey) == Manhattan(nodeKey, endKey) * Milli(800)

\* Mutant: a better cost is recorded but the neighbour is not pushed.
RelaxNeighbourNoEnqueue(st, currentKey, neighborKey, endKey) ==
    LET tentativeGCost == st.gCost[currentKey] + nodes[neighborKey].weight
    IN  IF tentativeGCost < st.gCost[neighborKey]
        THEN [gCost |-> [st.gCost EXCEPT ![neighborKey] = tentativeGCost],
              previous |-> [st.previous EXCEPT ![neighborKey] = currentKey],
              pq |-> st.pq]
        ELSE st

\* Mutant: the step is charged the weight of the node it leaves.
RelaxNeighbourWeightOfCurrent(st, currentKey, neighborKey, endKey) ==
    LET tentativeGCost == st.gCost[currentKey] + nodes[currentKey].weight
    IN  IF tentativeGCost < st.gCost[neighborKey]
        THEN [gCost |-> [st.gCost EXCEPT ![neighborKey] = tentativeGCost],
              previous |-> [st.previous EXCEPT ![neighborKey] = currentKey],
              pq |-> enqueue(st.pq, neighborKey,
                             tentativeGCost + manhattanDistance(neighborKey, endKey))]
        ELSE st

\* Mutant: the link is set on the wrong end, previous.set(currentKey,
\* neighborKey).
RelaxNeighbourLinkReversed(st, currentKey, neighborKey, endKey) ==
    LET dx == nodes[currentKey].x - nodes[neighborKey].x
        dy == nodes[currentKey].y - nodes[neighborKey].y
        movementCost == IF dx = 0 \/ dy = 0
                        THEN nodes[neighborKey].weight
                        ELSE (1414 * nodes[neighborKey].weight) \div 1000
        tentativeGCost == st.gCost[currentKey] + movementCost
    IN  IF tentativeGCost < st.gCost[neighborKey]
        THEN [gCost |-> [st.gCost EXCEPT ![neighborKey] = tentativeGCost],
              previous |-> [st.previous EXCEPT ![currentKey] = neighborKey],
              pq |-> enqueue(st.pq, neighborKey,
                             tentativeGCost + manhattanDistance(neighborKey, endKey))]
        ELSE st

\* The body of the neighbour loop after its guards: the tentative cost and,
\* when it is better, the update of previous, gCost and the queue.
\* st holds the three maps the loop writes.
RelaxNeighbour(st, currentKey, neighborKey, endKey) ==
    LET dx == nodes[currentKey].x - nodes[neighborKey].x
        dy == nodes[currentKey].y - nodes[neighborKey].y
        movementCost == IF dx = 0 \/ dy = 0
                        THEN nodes[neighborKey].weight
                        ELSE (1414 * nodes[neighborKey].weight) \div 1000
        tentativeGCost == st.gCost[currentKey] + movementCost
    IN  IF tentativeGCost < st.gCost[neighborKey]
        THEN [gCost |-> [st.gCost EXCEPT ![neighborKey] = tentativeGCost],
              previous |-> [st.previous EXCEPT ![neighborKey] = currentKey],
              pq |-> enqueue(st.pq, neighborKey,
                             tentativeGCost + manhattanDistance(neighborKey, endKey))]
        ELSE st

\* Mutant: no popped key is taken for closed.
visitedHasNever(closed, currentKey) == FALSE

\* if (visited.has(currentKey)) continue; the test made on every popped key.
visitedHas(closed, currentKey) == InSeq(currentKey, closed)

\* edges.get(currentKey) || new Set()
ConnectionsOf(currentKey) ==
    IF currentKey \in DOMAIN edges THEN edges[currentKey] ELSE <<>>

----------------------------------------------------------------------------
(* dijkstraGraph: the batch search *)

\* Math.min(1000, nodes.size * 0.5), in halves of a node.
InitialBudget == Min(2 * 1000, Cardinality(DOMAIN nodes))

\* Mutant: the loop goes on while nodesExplored <= maxNodesToExplore.
BudgetLeftInclusive == 2 * nodesExplored <= maxNodesToExplore

\* The second half of the loop condition: nodesExplored < maxNodesToExplore.
BudgetLeft == 2 * nodesExplored < maxNodesToExplore

\* The keys the initialisation loop does not skip:
\* distanceFromStart <= maxDistance * 1.5.
WithinRadius(startKey, endKey) ==
    {k \in DOMAIN nodes : 2 * Manhattan(k, startKey) <= 3 * Manhattan(startKey, endKey)}

\* Mutant: the neighbour loop of the batch search does not pass over the
\* neighbours that were given no gCost entry.
RECURSIVE relaxBatchBeyondRadius(_, _, _, _, _, _)
relaxBatchBeyondRadius(st, conns, i, currentKey, endKey, closed) ==
    IF i > Len(conns)
    THEN st
    ELSE IF InSeq(conns[i], closed)
         THEN relaxBatchBeyondRadius(st, conns, i + 1, currentKey, endKey, closed)
         ELSE relaxBatchBeyondRadius(
                  IF conns[i] \in DOMAIN st.gCost
                  THEN RelaxNeighbour(st, currentKey, conns[i], endKey)
                  ELSE [gCost |-> MapSet(st.gCost, conns[i],
                                         st.gCost[currentKey] + nodes[conns[i]].weight),
                        previous |-> MapSet(st.previous, conns[i], currentKey),
                        pq |-> enqueue(st.pq, conns[i],
                                       st.gCost[currentKey] + nodes[conns[i]].weight
                                           + manhattanDistance(conns[i], endKey))],
                  conns, i + 1, currentKey, endKey, closed)

\* for (const neighborKey of connections) of the batch search, from the i-th
\* connection on.
RECURSIVE relaxBatch(_, _, _, _, _, _)
relaxBatch(maps, conns, i, currentKey, endKey, closed) ==
    CHOOSE relaxed \in
        {IF i > Len(conns)
         THEN st
         ELSE IF InSeq(conns[i], closed) \/ conns[i] \notin DOMAIN st.gCost
              THEN relaxBatch(st, conns, i + 1, currentKey, endKey, closed)
              ELSE relaxBatch(RelaxNeighbour(st, currentKey, conns[i], endKey),
                              conns, i + 1, currentKey, endKey, closed)
         : st \in {maps}} : TRUE

\* Mutant: the start is given its estimate as its cost,
\* gCost.set(startKey, manhattanDistance(startKey)).
dijkstraGraphStartCostOfEstimate(startKey, endKey) ==
    /\ gCost' = [k \in WithinRadius(startKey, endKey) |->
                    IF k = startKey THEN manhattanDistance(startKey, endKey)
                                    ELSE Infinity]
    /\ previous' = [k \in WithinRadius(startKey, endKey) |-> Null]
    /\ visited' = <<>>
    /\ pq' = enqueue(<<>>, startKey, manhattanDistance(startKey, endKey))
    /\ nodesExplored' = 0
    /\ maxNodesToExplore' = InitialBudget
    /\ animationSteps' = <<>>
    /\ lastVisitedSize' = 0
    /\ result' = Null
    /\ pc' = "dijkstraGraph"

\* Lines 257-300: the state of a batch search before its loop.
dijkstraGraphStart(startKey, endKey) ==
    /\ gCost' = [k \in WithinRadius(startKey, endKey) |->
                    IF k = startKey THEN 0 ELSE Infinity]
    /\ previous' = [k \in WithinRadius(startKey, endKey) |-> Null]
    /\ visited' = <<>>
    /\ pq' = enqueue(<<>>, startKey, manhattanDistance(startKey, endKey))
    /\ nodesExplored' = 0
    /\ maxNodesToExplore' = InitialBudget
    /\ animationSteps' = <<>>
    /\ lastVisitedSize' = 0
    /\ result' = Null
    /\ pc' = "dijkstraGraph"

\* Mutant: pathExists is true whatever the path.
dijkstraGraphReturnAlwaysExists(g, prev) ==
    LET r == reconstructGraphPath(prev, call.startKey, call.endKey)
    IN  /\ result' = IF call.op = "findShortestGraphPath"
                     THEN [path |-> r.path,
                           distance |-> MapGet(g, call.endKey),
                           pathExists |-> TRUE]
                     ELSE [distances |-> g, previous |-> prev]
        /\ pc' = "returned"

\* Mutant: the distance returned is read at startKey instead of endKey.
dijkstraGraphReturnDistanceOfStart(g, prev) ==
    LET r == reconstructGraphPath(prev, call.startKey, call.endKey)
    IN  /\ result' = IF call.op = "findShortestGraphPath"
                     THEN [path |-> r.path,
                           distance |-> MapGet(g, call.startKey),
                           pathExists |-> Len(r.path) > 0]
                     ELSE [distances |-> g, previous |-> prev]
        /\ pc' = "returned"

\* return { distances: gCost, previous } and, when findShortestGraphPath made
\* the call, its last lines: the path, distances.get(endKey), path.length > 0.
dijkstraGraphReturn(g, prev) ==
    IF call.op = "findShortestGraphPath"
    THEN LET r == reconstructGraphPath(prev, call.startKey, call.endKey)
         IN  IF r.halts
             THEN /\ result' = [path |-> r.path,
                                distance |-> MapGet(g, call.endKey),
                                pathExists |-> Len(r.path) > 0]
                  /\ pc' = "returned"
             ELSE /\ result' = Null
                  /\ pc' = "hung"
    ELSE /\ result' = [distances |-> g, previous |-> prev]
         /\ pc' = "returned"

\* One pass of the while loop of dijkstraGraph.
dijkstraGraphLoop ==
    /\ pc = "dijkstraGraph"
    /\ ~isEmpty(pq)
    /\ BudgetLeft
    /\ \E d \in {dequeue(pq)} :
       LET currentKey == d.min.element
       IN  IF visitedHas(visited, currentKey)
           THEN /\ pq' = d.heap
                /\ UNCHANGED <<gCost, previous, visited, nodesExplored,
                               maxNodesToExplore, result, pc>>
           ELSE /\ visited' = Append(visited, currentKey)
                /\ nodesExplored' = nodesExplored + 1
                /\ IF currentKey = call.endKey
                   THEN /\ pq' = d.heap
                        /\ UNCHANGED <<gCost, previous, maxNodesToExplore>>
                        /\ dijkstraGraphReturn(gCost, previous)
                   ELSE LET distanceToEnd == Manhattan(currentKey, call.endKey)
                            st == relaxBatch([gCost |-> gCost, previous |-> previous,
                                              pq |-> d.heap],
                                             ConnectionsOf(currentKey), 1,
                                             currentKey, call.endKey,
                                             Append(visited, currentKey))
                        IN  /\ maxNodesToExplore' =
                                  IF distanceToEnd <= 3 /\ nodesExplored + 1 > 50
                                  THEN Min(maxNodesToExplore,
                                           2 * (nodesExplored + 1 + 100))
                                  ELSE maxNodesToExplore
                            /\ gCost' = st.gCost
                            /\ previous' = st.previous
                            /\ pq' = st.pq
                            /\ UNCHANGED <<result, pc>>
    /\ GraphOnlyRead
    /\ UNCHANGED <<generatorVars, workerVars, call, animationSteps, lastVisitedSize>>

\* The loop condition fails: the queue is empty or the budget is used up.
dijkstraGraphExit ==
    /\ pc = "dijkstraGraph"
    /\ (isEmpty(pq) \/ ~BudgetLeft)
    /\ dijkstraGraphReturn(gCost, previous)
    /\ GraphOnlyRead
    /\ UNCHANGED <<generatorVars, workerVars, call, searchVars>>

\* A direct call of the exported dijkstraGraph.  With a key the graph does
\* not hold, startNode or endNode is undefined and reading its x throws.
dijkstraGraphCall(startKey, endKey) ==
    /\ Callable
    /\ call' = [op |-> "dijkstraGraph", startKey |-> startKey, endKey |-> endKey]
    /\ IF startKey \in DOMAIN nodes /\ endKey \in DOMAIN nodes
       THEN dijkstraGraphStart(startKey, endKey)
       ELSE /\ NoSearchState
            /\ result' = Null
            /\ pc' = "threw"
    /\ GraphOnlyRead
    /\ UNCHANGED <<generatorVars, workerVars>>

----------------------------------------------------------------------------
(* findShortestGraphPath *)

\* Mutant: the start = end shortcut is tested before the keys are looked up.
findShortestGraphPathShortcutFirst(startKey, endKey) ==
    /\ Callable
    /\ call' = [op |-> "findShortestGraphPath", startKey |-> startKey, endKey |-> endKey]
    /\ IF startKey = endKey
       THEN /\ NoSearchState
            /\ result' = [path |-> <<startKey>>, distance |-> 0, pathExists |-> TRUE]
            /\ pc' = "returned"
       ELSE IF startKey \notin DOMAIN nodes \/ endKey \notin DOMAIN nodes
            THEN /\ NoSearchState
                 /\ result' = [path |-> <<>>, distance |-> Infinity, pathExists |-> FALSE]
                 /\ pc' = "returned"
            ELSE dijkstraGraphStart(startKey, endKey)
    /\ GraphOnlyRead
    /\ UNCHANGED <<generatorVars, workerVars>>

\* Mutant: start = end is not special-cased, the search runs for it.
findShortestGraphPathNoShortcut(startKey, endKey) ==
    /\ Callable
    /\ call' = [op |-> "findShortestGraphPath", startKey |-> startKey, endKey |-> endKey]
    /\ IF startKey \notin DOMAIN nodes \/ endKey \notin DOMAIN nodes
       THEN /\ NoSearchState
            /\ result' = [path |-> <<>>, distance |-> Infinity, pathExists |-> FALSE]
            /\ pc' = "returned"
       ELSE dijkstraGraphStart(startKey, endKey)
    /\ GraphOnlyRead
    /\ UNCHANGED <<generatorVars, workerVars>>

\* The call and its two early returns; otherwise the batch search starts and
\* dijkstraGraphReturn finishes the call.
findShortestGraphPath(startKey, endKey) ==
    /\ Callable
    /\ call' = [op |-> "findShortestGraphPath", startKey |-> startKey, endKey |-> endKey]
    /\ IF startKey \notin DOMAIN nodes \/ endKey \notin DOMAIN nodes
       THEN /\ NoSearchState
            /\ result' = [path |-> <<>>, distance |-> Infinity, pathExists |-> FALSE]
            /\ pc' = "returned"
       ELSE IF startKey = endKey
            THEN /\ NoSearchState
                 /\ result' = [path |-> <<startKey>>, distance |-> 0, pathExists |-> TRUE]
                 /\ pc' = "returned"
            ELSE dijkstraGraphStart(startKey, endKey)
    /\ GraphOnlyRead
    /\ UNCHANGED <<generatorVars, workerVars>>

----------------------------------------------------------------------------
(* dijkstraGraphAnimated: the search that records its steps *)

MAX_ANIMATION_STEPS == 1500

\* for (const neighborKey of connections) of the animated search, from the
\* i-th connection on.
RECURSIVE relaxAnimated(_, _, _, _, _, _)
relaxAnimated(maps, conns, i, currentKey, endKey, closed) ==
    CHOOSE relaxed \in
        {IF i > Len(conns)
         THEN st
         ELSE IF InSeq(conns[i], closed)
              THEN relaxAnimated(st, conns, i + 1, currentKey, endKey, closed)
              ELSE relaxAnimated(RelaxNeighbour(st, currentKey, conns[i], endKey),
                                 conns, i + 1, currentKey, endKey, closed)
         : st \in {maps}} : TRUE

\* for (const nodeKey of visited) newPQ.enqueue(nodeKey, manhattanDistance(nodeKey)),
\* for the keys keys[lo..hi] in order (the range is halved, and the first
\* half is computed before the second is begun, to keep the evaluation
\* shallow; the enqueue order is that of the loop).
RECURSIVE enqueueAll(_, _, _, _, _)
enqueueAll(array, keys, from, to, endKey) ==
    CHOOSE filled \in
        {IF lo > hi
         THEN heap
         ELSE IF lo = hi
              THEN enqueue(heap, keys[lo], manhattanDistance(keys[lo], endKey))
              ELSE LET mid == (lo + hi) \div 2
                       firstHalf == enqueueAll(heap, keys, lo, mid, endKey)
                   IN  IF Len(firstHalf) >= 0
                       THEN enqueueAll(firstHalf, keys, mid + 1, hi, endKey)
                       ELSE firstHalf
         : heap \in {array}, lo \in {from}, hi \in {to}} : TRUE

\* The queue after the near-goal rebuild: pq.heap = newPQ.heap, newPQ holding
\* every key of visited keyed by its heuristic.
rebuiltQueue(heap, closed, endKey) == enqueueAll(<<>>, closed, 1, Len(closed), endKey)

\* The state of an animated search as one value: the locals of
\* dijkstraGraphAnimated and where the call stands.
AnimatedState ==
    [gCost |-> gCost, previous |-> previous, visited |-> visited, pq |-> pq,
     animationSteps |-> animationSteps, lastVisitedSize |-> lastVisitedSize,
     pc |-> pc]

\* Mutant: the loop is entered without the init step having been stored.
dijkstraGraphAnimatedStartNoInit(startKey, endKey) ==
    [gCost |-> [k \in DOMAIN nodes |-> IF k = startKey THEN 0 ELSE Infinity],
     previous |-> [k \in DOMAIN nodes |-> Null],
     visited |-> <<>>,
     pq |-> enqueue(<<>>, startKey, manhattanDistance(startKey, endKey)),
     animationSteps |-> <<>>,
     lastVisitedSize |-> 0,
     pc |-> "dijkstraGraphAnimated"]

\* Lines 359-401: the locals before the loop, both keys being in the graph.
dijkstraGraphAnimatedStart(startKey, endKey) ==
    [gCost |-> [k \in DOMAIN nodes |-> IF k = startKey THEN 0 ELSE Infinity],
     previous |-> [k \in DOMAIN nodes |-> Null],
     visited |-> <<>>,
     pq |-> enqueue(<<>>, startKey, manhattanDistance(startKey, endKey)),
     animationSteps |-> << [type |-> "init", current |-> startKey,
                            completed |-> FALSE] >>,
     lastVisitedSize |-> 0,
     pc |-> "dijkstraGraphAnimated"]

\* while (!pq.isEmpty() && animationSteps.length < MAX_ANIMATION_STEPS)
dijkstraGraphAnimatedRuns(s) ==
    /\ s.pc = "dijkstraGraphAnimated"
    /\ ~isEmpty(s.pq)
    /\ Len(s.animationSteps) < MAX_ANIMATION_STEPS

\* One pass of the while loop of dijkstraGraphAnimated, from the locals s.
dijkstraGraphAnimatedPass(s, startKey, endKey) ==
    LET d == dequeue(s.pq)
        currentKey == d.min.element
    IN  IF visitedHas(s.visited, currentKey)
        THEN [s EXCEPT !.pq = d.heap]
        ELSE LET closed == Append(s.visited, currentKey)
                 r == reconstructGraphPath(s.previous, startKey, currentKey)
                 explore == [type |-> "explore",
                             current |-> currentKey,
                             visitedCount |-> Len(closed),
                             newVisited |-> Len(closed) - s.lastVisitedSize,
                             currentPath |-> IF Len(r.path) > 0 THEN r.path
                                             ELSE <<startKey>>,
                             completed |-> FALSE]
                 complete == [type |-> "complete",
                              current |-> currentKey,
                              visitedCount |-> Len(closed),
                              currentPath |-> r.path,
                              completed |-> TRUE]
             IN  IF ~r.halts
                 THEN [s EXCEPT !.visited = closed, !.pq = d.heap, !.pc = "hung"]
                 ELSE IF currentKey = endKey
                      THEN [s EXCEPT !.visited = closed,
                                     !.lastVisitedSize = Len(closed),
                                     !.animationSteps =
                                         Append(Append(s.animationSteps, explore),
                                                complete),
                                     !.pq = d.heap,
                                     !.pc = "returned"]
                      ELSE LET distanceToEnd == Manhattan(currentKey, endKey)
                               heap == IF distanceToEnd <= 3 /\ Len(closed) > 50
                                       THEN rebuiltQueue(d.heap, closed, endKey)
                                       ELSE d.heap
                               st == relaxAnimated([gCost |-> s.gCost,
                                                    previous |-> s.previous,
                                                    pq |-> heap],
                                                   ConnectionsOf(currentKey), 1,
                                                   currentKey, endKey, closed)
                           IN  [s EXCEPT !.visited = closed,
                                         !.lastVisitedSize = Len(closed),
                                         !.animationSteps =
                                             Append(s.animationSteps, explore),
                                         !.gCost = st.gCost,
                                         !.previous = st.previous,
                                         !.pq = st.pq]

\* return animationSteps, once the loop condition fails.
dijkstraGraphAnimatedLeave(s) ==
    IF s.pc = "dijkstraGraphAnimated" /\ ~dijkstraGraphAnimatedRuns(s)
    THEN [s EXCEPT !.pc = "returned"]
    ELSE s

\* The locals s become the state.
AnimatedBecomes(s) ==
    /\ gCost' = s.gCost
    /\ previous' = s.previous
    /\ visited' = s.visited
    /\ pq' = s.pq
    /\ animationSteps' = s.animationSteps
    /\ lastVisitedSize' = s.lastVisitedSize
    /\ pc' = s.pc

\* A call of dijkstraGraphAnimated: lines 359-401.  With a key the graph does
\* not hold, manhattanDistance(startKey) reads x of undefined and throws.
\* The function returns the animationSteps array itself: the value returned
\* is animationSteps at pc = "returned".
dijkstraGraphAnimated(startKey, endKey) ==
    /\ Callable
    /\ call' = [op |-> "dijkstraGraphAnimated", startKey |-> startKey, endKey |-> endKey]
    /\ result' = Null
    /\ IF startKey \in DOMAIN nodes /\ endKey \in DOMAIN nodes
       THEN /\ AnimatedBecomes(dijkstraGraphAnimatedStart(startKey, endKey))
            /\ nodesExplored' = 0
            /\ maxNodesToExplore' = 0
       ELSE /\ NoSearchState
            /\ pc' = "threw"
    /\ GraphOnlyRead
    /\ UNCHANGED <<generatorVars, workerVars>>

\* The state moves by one pass of the while loop.
dijkstraGraphAnimatedLoop ==
    /\ dijkstraGraphAnimatedRuns(AnimatedState)
    /\ \E s \in {dijkstraGraphAnimatedPass(AnimatedState, call.startKey,
                                           call.endKey)} : AnimatedBecomes(s)
    /\ GraphOnlyRead
    /\ UNCHANGED <<generatorVars, workerVars, call, nodesExplored, maxNodesToExplore, result>>

\* The loop condition fails: the queue is empty or the step cap is reached.
dijkstraGraphAnimatedExit ==
    /\ pc = "dijkstraGraphAnimated"
    /\ ~dijkstraGraphAnimatedRuns(AnimatedState)
    /\ pc' = "returned"
    /\ GraphOnlyRead
    /\ UNCHANGED <<generatorVars, workerVars, call, searchVars, result>>

\* The while loop run for at most n passes from the locals s.  The range is
\* halved and the first half is run before the second is begun.
RECURSIVE dijkstraGraphAnimatedPasses(_, _, _, _)
dijkstraGraphAnimatedPasses(from, n, startKey, endKey) ==
    IF n > 1 /\ dijkstraGraphAnimatedRuns(from)
    THEN CHOOSE s \in
             {dijkstraGraphAnimatedPasses(half, n - (n \div 2), startKey, endKey) :
                  half \in {dijkstraGraphAnimatedPasses(
                                from, n \div 2, startKey, endKey)}} : TRUE
    ELSE IF dijkstraGraphAnimatedRuns(from)
         THEN dijkstraGraphAnimatedPass(from, startKey, endKey)
         ELSE from

\* No run to endKey makes more passes than this: a pass pops one entry, and
\* the pushes are the start, at most four for each closed node, and at a
\* rebuild as many as there are closed nodes.  A rebuild is made at a node
\* within distance 3 of the end, and a node is closed once.
PassesAtMost(endKey) ==
    1 + Cardinality(DOMAIN nodes)
            * (4 + Cardinality({k \in DOMAIN nodes : Manhattan(k, endKey) <= 3}))

\* The whole call in one step: dijkstraGraphAnimated is synchronous, its
\* caller sees nothing between the call and the return.
dijkstraGraphAnimatedToReturn(startKey, endKey) ==
    /\ Callable
    /\ call' = [op |-> "dijkstraGraphAnimated", startKey |-> startKey, endKey |-> endKey]
    /\ result' = Null
    /\ IF startKey \in DOMAIN nodes /\ endKey \in DOMAIN nodes
       THEN /\ AnimatedBecomes(
                   dijkstraGraphAnimatedLeave(
                       dijkstraGraphAnimatedPasses(
                           dijkstraGraphAnimatedStart(startKey, endKey),
                           PassesAtMost(endKey), startKey, endKey)))
            /\ nodesExplored' = 0
            /\ maxNodesToExplore' = 0
       ELSE /\ NoSearchState
            /\ pc' = "threw"
    /\ GraphOnlyRead
    /\ UNCHANGED <<generatorVars, workerVars>>

----------------------------------------------------------------------------
(* The small specification: every call on every small test grid *)

\* Test terrains: the weight (before the floor) of cell (x, y).
\*   unit    every node 1.0 (the grids of the scenarios)
\*   valley  every node 0.1, below the heuristic's 0.8 per step
\*   ridge   a column of 8.0 in terrain of 0.5
\*   rough   0.1, 2.0 and 0.75 mixed
\*   moat    every node 1.0, and no edge between column 0 and column 1:
\*           a hand-built graph in which some nodes cannot be reached
\*   summit  (large grid only) 25.0 on the nodes within three steps of the
\*           far corner, the corner itself and all other nodes 1.0
Terrains == {"unit", "valley", "ridge", "rough", "moat"}

TerrainWeight(t, x, y, width, height) ==
    CASE t = "unit" -> Milli(1000)
      [] t = "moat" -> Milli(1000)
      [] t = "summit" ->
            IF Abs(x - (width - 1)) + Abs(y - (height - 1)) \in 1..3
            THEN Milli(25000) ELSE Milli(1000)
      [] t = "valley" -> Milli(100)
      [] t = "ridge" -> IF x = 1 THEN Milli(8000) ELSE Milli(500)
      [] OTHER -> CASE (x + 2 * y) % 3 = 0 -> Milli(100)
                    [] (x + 2 * y) % 3 = 1 -> Milli(2000)
                    [] OTHER -> Milli(750)

\* A key no grid holds.
AbsentKey == "-1,0"

CallKeys == DOMAIN nodes \cup {AbsentKey}

\* The argument lists generateGraphStructure is called with: heights on both
\* sides of the threshold of line 161.
Seeds == {7, 42}
Details == {1000, HugeDetail}
GenerateArgs ==
    {<<w>> : w \in 1..MaxW}
    \cup {<<w, h, seed, detail>> :
             w \in 1..MaxW, h \in (1..MaxH) \cup {10, 11}, seed \in Seeds,
             detail \in Details}

Idle ==
    /\ pc = "idle"
    /\ call = [op |-> "none"]
    /\ gCost = EmptyMap
    /\ previous = EmptyMap
    /\ visited = <<>>
    /\ pq = <<>>
    /\ nodesExplored = 0
    /\ maxNodesToExplore = 0
    /\ animationSteps = <<>>
    /\ lastVisitedSize = 0
    /\ result = Null
    /\ perlin = <<>>
    /\ generated = <<>>
    /\ inbox = <<>>
    /\ handled = 0
    /\ outbox = <<>>

\* The edges of a test graph: those of the grid, the moat's crossings removed.
TestEdges(width, height, t) ==
    LET grid == GridEdges(width, height)
        xOf(k) == CHOOSE x \in 0 .. width - 1 : \E y \in 0 .. height - 1 : k = NodeKey(x, y)
        sameBank(k, n) == (xOf(k) = 0) = (xOf(n) = 0)
    IN  IF t = "moat"
        THEN [k \in DOMAIN grid |-> SelectSeq(grid[k], LAMBDA n : sameBank(k, n))]
        ELSE grid

Init ==
    /\ \E width \in 1..MaxW, height \in 1..MaxH, t \in Terrains :
          /\ nodes = GridNodes(width, height,
                               [c \in Cells(width, height) |->
                                   TerrainWeight(t, c[1], c[2], width, height)])
          /\ edges = TestEdges(width, height, t)
    /\ Idle

\* The caller has taken the value of a finished call (or caught what it
\* threw); the search state of the call is dropped.
ReturnToCaller ==
    /\ pc \in {"returned", "threw"}
    /\ pc' = "idle"
    /\ call' = [op |-> "none"]
    /\ NoSearchState
    /\ result' = Null
    /\ UNCHANGED <<nodes, edges, generatorVars, workerVars>>

Next ==
    \/ \E s \in CallKeys, e \in CallKeys : findShortestGraphPath(s, e)
    \/ \E s \in CallKeys, e \in CallKeys : dijkstraGraphCall(s, e)
    \/ dijkstraGraphLoop
    \/ dijkstraGraphExit
    \/ \E s \in CallKeys, e \in CallKeys : dijkstraGraphAnimated(s, e)
    \/ dijkstraGraphAnimatedLoop
    \/ dijkstraGraphAnimatedExit
    \/ \E args \in GenerateArgs, b \in {"unbound", "wrapper"} :
          generateGraphStructureCall(args, b)
    \/ ReturnToCaller

Spec == Init /\ [][Next]_vars

----------------------------------------------------------------------------
(* The large specification: animated searches that run to their return in   *)
(* one step, on the small test graphs and, from corner to corner, on a      *)
(* 35 x 43 grid (1505 nodes), where the step cap and the near-goal queue    *)
(* rebuild come into play.                                                  *)

CapGrid == [width |-> 35, height |-> 43]
CapTerrains == {"unit", "summit"}
CapStart == NodeKey(0, 0)
CapEnd == NodeKey(CapGrid.width - 1, CapGrid.height - 1)

InitCap ==
    \/ Init
    \/ /\ \E t \in CapTerrains :
             nodes = GridNodes(CapGrid.width, CapGrid.height,
                               [c \in Cells(CapGrid.width, CapGrid.height) |->
                                   TerrainWeight(t, c[1], c[2], CapGrid.width,
                                                 CapGrid.height)])
       /\ edges = GridEdges(CapGrid.width, CapGrid.height)
       /\ Idle

\* The graph is the large grid.
OnCapGrid == CapEnd \in DOMAIN nodes

NextCap ==
    \/ /\ OnCapGrid
       /\ dijkstraGraphAnimatedToReturn(CapStart, CapEnd)
    \/ /\ ~OnCapGrid
       /\ \E s \in CallKeys, e \in CallKeys : dijkstraGraphAnimatedToReturn(s, e)
    \/ ReturnToCaller

SpecCap == InitCap /\ [][NextCap]_vars

----------------------------------------------------------------------------
(* The path specification: reconstructGraphPath called on its own, as the   *)
(* export allows, with every predecessor map over a few keys.               *)

PathKeys == {NodeKey(i, 0) : i \in 0 .. MaxPathKeys - 1}

\* A Map from some of the keys to a key or null.
PredecessorMaps == UNION {[D -> PathKeys \cup {Null}] : D \in SUBSET PathKeys}

InitPath ==
    /\ nodes = EmptyMap
    /\ edges = EmptyMap
    /\ Idle

\* A call of the exported reconstructGraphPath.  A walk that cannot leave its
\* loop never returns.
reconstructGraphPathCall(prev, startKey, endKey) ==
    /\ Callable
    /\ call' = [op |-> "reconstructGraphPath", startKey |-> startKey, endKey |-> endKey]
    /\ previous' = prev
    /\ LET r == reconstructGraphPath(prev, startKey, endKey)
       IN  /\ result' = IF r.halts THEN r.path ELSE Null
           /\ pc' = IF r.halts THEN "returned" ELSE "hung"
    /\ gCost' = EmptyMap
    /\ visited' = <<>>
    /\ pq' = <<>>
    /\ nodesExplored' = 0
    /\ maxNodesToExplore' = 0
    /\ animationSteps' = <<>>
    /\ lastVisitedSize' = 0
    /\ GraphOnlyRead
    /\ UNCHANGED <<generatorVars, workerVars>>

NextPath ==
    \/ \E prev \in PredecessorMaps, s \in PathKeys, e \in PathKeys :
          reconstructGraphPathCall(prev, s, e)
    \/ ReturnToCaller

SpecPath == InitPath /\ [][NextPath]_vars

----------------------------------------------------------------------------
(* What the claims speak of *)

\* A call of findShortestGraphPath has returned.
FacadeReturned == pc = "returned" /\ call.op = "findShortestGraphPath"

\* ... and it ran the batch search: both keys present and different.
FacadeSearched ==
    /\ FacadeReturned
    /\ call.startKey \in DOMAIN nodes
    /\ call.endKey \in DOMAIN nodes
    /\ call.startKey # call.endKey

\* The keys reachable from the keys of R along edges that stay inside S.
RECURSIVE ReachableWithin(_, _)
ReachableWithin(S, R) ==
    LET R2 == R \cup {n \in S : \E k \in R : InSeq(n, ConnectionsOf(k))}
    IN  IF R2 = R THEN R ELSE ReachableWithin(S, R2)

\* Some path from startKey to endKey uses only nodes inside the pruning radius.
PathWithinRadius(startKey, endKey) ==
    endKey \in ReachableWithin(WithinRadius(startKey, endKey), {startKey})

\* The extent of the graph, from the coordinates of its nodes.
GraphWidth == 1 + CHOOSE x \in 0..Cardinality(DOMAIN nodes) :
                     /\ \E k \in DOMAIN nodes : nodes[k].x = x
                     /\ \A k \in DOMAIN nodes : nodes[k].x <= x
GraphHeight == 1 + CHOOSE y \in 0..Cardinality(DOMAIN nodes) :
                      /\ \E k \in DOMAIN nodes : nodes[k].y = y
                      /\ \A k \in DOMAIN nodes : nodes[k].y <= y

\* The graph is the full 4-directional grid and every node weighs 1.
UnitGrid ==
    /\ edges = GridEdges(GraphWidth, GraphHeight)
    /\ \A k \in DOMAIN nodes : nodes[k].weight = Milli(1000)

\* path is a walk of the graph: each key is followed by one of its neighbours.
IsWalk(path) ==
    \A i \in 1..(Len(path) - 1) : InSeq(path[i + 1], ConnectionsOf(path[i]))

NotFound == [path |-> <<>>, distance |-> Infinity, pathExists |-> FALSE]

NoSearchWasMade ==
    /\ DOMAIN gCost = {}
    /\ DOMAIN previous = {}
    /\ visited = <<>>
    /\ pq = <<>>
    /\ nodesExplored = 0

----------------------------------------------------------------------------
(* Claims *)

\* C1 (as stated): whenever start and end are distinct keys of the graph and
\* some path between them stays within 1.5 x Manhattan(start, end) of start,
\* findShortestGraphPath returns pathExists = true.
C1_PathFoundWithinRadius ==
    (FacadeSearched /\ PathWithinRadius(call.startKey, call.endKey))
        => result.pathExists

\* C2: a result with pathExists = true carries a non-empty path from start to
\* end whose consecutive keys are joined by edges of the graph.
C2_ReturnedPathIsWalk ==
    (FacadeReturned /\ result.pathExists)
        => /\ Len(result.path) > 0
           /\ result.path[1] = call.startKey
           /\ result.path[Len(result.path)] = call.endKey
           /\ IsWalk(result.path)

C2_Witness ==
    /\ FacadeSearched
    /\ result.pathExists
    /\ Len(result.path) >= 4

\* C3 (as stated): on the 3x3 grid of weight 1 the call ("0,0", "2,2") returns
\* pathExists = true, a path of 5 keys and distance 4.
C3_ThreeByThree ==
    (/\ FacadeReturned
     /\ UnitGrid /\ GraphWidth = 3 /\ GraphHeight = 3
     /\ call.startKey = "0,0" /\ call.endKey = "2,2")
        => /\ result.pathExists
           /\ Len(result.path) = 5
           /\ result.distance = Milli(4000)

\* C4 (as stated): when the batch loop ends without the goal having been
\* popped and closed, the result is not-found: no path, pathExists = false,
\* a non-finite distance.
C4_NotPoppedIsNotFound ==
    (FacadeSearched /\ ~InSeq(call.endKey, visited)) => result = NotFound

\* C4 (amended): when the batch loop ends without the goal having been given
\* a predecessor (no relaxation reached it, so it was not popped either), the
\* result is not-found, and no call of findShortestGraphPath throws or hangs.
C4_NotRelaxedIsNotFound ==
    /\ (FacadeSearched /\ previous[call.endKey] = Null) => result = NotFound
    /\ call.op = "findShortestGraphPath" => pc \notin {"threw", "hung"}

\* The budget ran out (the queue still holds entries) with the goal untouched.
C4_Witness ==
    /\ FacadeSearched
    /\ previous[call.endKey] = Null
    /\ ~isEmpty(pq)
    /\ result = NotFound

\* C5: for a key k of the graph, findShortestGraphPath(k, k) returns [k],
\* distance 0, pathExists = true, and no search is made for it.
C5_SameKeyIsTrivial ==
    (/\ call.op = "findShortestGraphPath"
     /\ call.startKey = call.endKey
     /\ call.startKey \in DOMAIN nodes)
        => /\ pc = "returned"
           /\ result = [path |-> <<call.startKey>>, distance |-> 0, pathExists |-> TRUE]
           /\ NoSearchWasMade

\* The 1x1 scenario: start = end = "0,0".
C5_Witness ==
    /\ FacadeReturned
    /\ Cardinality(DOMAIN nodes) = 1
    /\ call.startKey = "0,0" /\ call.endKey = "0,0"
    /\ result.pathExists

\* C6: with a start or end key the node map does not hold (also when both are
\* the same absent key) the result is not-found with distance Infinity, and no
\* search is made.
C6_AbsentKeyIsNotFound ==
    (/\ call.op = "findShortestGraphPath"
     /\ (call.startKey \notin DOMAIN nodes \/ call.endKey \notin DOMAIN nodes))
        => /\ pc = "returned"
           /\ result = NotFound
           /\ NoSearchWasMade

C6_Witness ==
    /\ FacadeReturned
    /\ call.startKey = AbsentKey /\ call.endKey = AbsentKey
    /\ result = NotFound

\* C8: on a grid of weight 1 with at most 50 nodes and two keys of it, the
\* animated search neither throws nor hangs, and the sequence it returns ends
\* with a complete step whose current is the end key.
C8_SmallGridCompletes ==
    (/\ call.op = "dijkstraGraphAnimated"
     /\ UnitGrid /\ Cardinality(DOMAIN nodes) <= 50
     /\ call.startKey \in DOMAIN nodes /\ call.endKey \in DOMAIN nodes)
        => /\ pc \in {"dijkstraGraphAnimated", "returned"}
           /\ pc = "returned" =>
                 /\ Len(animationSteps) > 0
                 /\ animationSteps[Len(animationSteps)].type = "complete"
                 /\ animationSteps[Len(animationSteps)].current = call.endKey

C8_Witness ==
    /\ pc = "returned" /\ call.op = "dijkstraGraphAnimated"
    /\ UnitGrid /\ GraphWidth = 3 /\ GraphHeight = 3
    /\ call.startKey = "0,0" /\ call.endKey = "2,2"
    /\ animationSteps[Len(animationSteps)].type = "complete"

\* C7 (as stated): the sequence dijkstraGraphAnimated builds never holds more
\* than 1500 steps.
C7_AtMostMaxSteps == Len(animationSteps) <= MAX_ANIMATION_STEPS

\* The chains of predecessor links that end at endKey and begin at a key
\* without a predecessor: q[i] is the predecessor of q[i + 1].  There is one
\* when the links walked back from endKey come to an end, none when they
\* come round to a key again.
TerminatedChains(prev, endKey) ==
    {q \in UNION {[1..n -> PathKeys] : n \in 1..MaxPathKeys} :
        /\ q[Len(q)] = endKey
        /\ \A i \in 1..(Len(q) - 1) : MapGet(prev, q[i + 1]) = q[i]
        /\ ~Truthy(MapGet(prev, q[1]))}

\* What C9 says the call returns: the chain when it begins at startKey, the
\* empty sequence otherwise.
ChainFromStart(prev, startKey, endKey) ==
    IF \E q \in TerminatedChains(prev, endKey) : q[1] = startKey
    THEN CHOOSE q \in TerminatedChains(prev, endKey) : q[1] = startKey
    ELSE <<>>

C10_OneNodePerCell ==
    (/\ call.op = "generateGraphStructure"
     /\ ArgHeightGiven(call.args))
        => /\ pc = "returned"
           /\ DOMAIN result.nodes =
                 {NodeKey(c[1], c[2]) : c \in Cells(call.args[1], call.args[2])}

----------------------------------------------------------------------------
(* The generated graph *)

\* A call of generateGraphStructure with a width and a height has returned.
GraphGenerated ==
    /\ call.op = "generateGraphStructure"
    /\ pc = "returned"
    /\ ArgHeightGiven(call.args)

\* The keys of the cells of [0, width) x [0, height) that differ from (x, y)
\* by 1 in exactly one coordinate.
OrthogonalNeighbours(x, y, width, height) ==
    {NodeKey(c[1], c[2]) :
        c \in {d \in Cells(width, height) : Abs(d[1] - x) + Abs(d[2] - y) = 1}}

\* The members of a connections Set.
Members(s) == {s[i] : i \in 1 .. Len(s)}

\* C11 (as stated): in every graph generateGraphStructure(width, height,
\* seed, detail) returns, edges[k] is exactly the set of orthogonal
\* neighbours of k inside [0, width) x [0, height), and the relation is
\* symmetric.
C11_EdgesAreInBoundsNeighbours ==
    GraphGenerated =>
        /\ \A k \in DOMAIN result.edges :
              Members(result.edges[k]) =
                  OrthogonalNeighbours(result.nodes[k].x, result.nodes[k].y,
                                       call.args[1], call.args[2])
        /\ \A a \in DOMAIN result.edges : \A b \in Members(result.edges[a]) :
              /\ b \in DOMAIN result.edges
              /\ a \in Members(result.edges[b])

\* A call of generateGraphStructure has returned a graph.
GraphReturned == call.op = "generateGraphStructure" /\ pc = "returned"

\* C12 (as stated): every node of every generated graph has weight >= 0.1,
\* for every seed, detail value and noise value.
C12_WeightsAtLeastFloor ==
    GraphReturned =>
        \A k \in DOMAIN result.nodes : result.nodes[k].weight >= Milli(100)

----------------------------------------------------------------------------
(* The generator specification: generateGraphStructure called again and     *)
(* again, each returned graph written down, to compare calls with one       *)
(* another.                                                                 *)

\* The argument lists of the calls: the defaults, and heights and seeds on
\* both sides of the branch of line 161.
ObservedArgs ==
    {<<2>>} \cup {<<2, h, seed, 1000>> : h \in {2, 10}, seed \in Seeds}

InitGen ==
    /\ nodes = EmptyMap
    /\ edges = EmptyMap
    /\ Idle

NextGen ==
    \/ \E args \in ObservedArgs, b \in {"unbound", "wrapper"} :
          generateGraphStructureObserved(args, b)
    \/ ReturnToCaller

SpecGen == InitGen /\ [][NextGen]_vars

----------------------------------------------------------------------------
(* The searches and the graph *)

SearchOps == {"dijkstraGraph", "dijkstraGraphAnimated", "reconstructGraphPath",
              "findShortestGraphPath"}

----------------------------------------------------------------------------
(* The worker specification: messages are delivered to dijkstraWorker.js    *)
(* and self.onmessage runs once for each, in the order of delivery.  The    *)
(* graph a COMPUTE_DIJKSTRA message carries is the graph of the sender.     *)

\* e.data of the messages: null (postMessage(null)), an object of a type the
\* worker does not know, a COMPUTE_DIJKSTRA without data, and
\* COMPUTE_DIJKSTRA requests between keys the graph holds or does not hold.
Messages ==
    {[kind |-> "null"],
     [kind |-> "object", type |-> "PING", data |-> [kind |-> "undefined"]],
     [kind |-> "object", type |-> "COMPUTE_DIJKSTRA", data |-> [kind |-> "undefined"]]}
    \cup {[kind |-> "object", type |-> "COMPUTE_DIJKSTRA",
           data |-> [kind |-> "object", startKey |-> s, endKey |-> e]] :
             s \in {NodeKey(0, 0), AbsentKey},
             e \in {NodeKey(GraphWidth - 1, GraphHeight - 1), AbsentKey}}

\* self.postMessage({type: 'DIJKSTRA_COMPLETE', data: {animationSteps}})
Complete(steps) == [type |-> "DIJKSTRA_COMPLETE", animationSteps |-> steps]

\* self.postMessage({type: 'DIJKSTRA_ERROR', data: {error: error.message}})
Failed(message) == [type |-> "DIJKSTRA_ERROR", error |-> message]

\* The replies one run of the handler posts for e.data = m.  The
\* destructuring of e.data stands before the try block: with e.data null it
\* throws a TypeError that nothing catches, and nothing is posted.  Inside
\* the try block every throw (data undefined, a key the graph does not hold,
\* an unknown type) is caught and answered with DIJKSTRA_ERROR.
Replies(m) ==
    IF m.kind = "null"
    THEN <<>>
    ELSE IF m.type = "COMPUTE_DIJKSTRA"
         THEN IF m.data.kind # "object"
              THEN << Failed("Cannot destructure property 'startKey' of 'data'") >>
              ELSE IF m.data.startKey \in DOMAIN nodes /\ m.data.endKey \in DOMAIN nodes
                   THEN << Complete(
                             dijkstraGraphAnimatedLeave(
                                 dijkstraGraphAnimatedPasses(
                                     dijkstraGraphAnimatedStart(m.data.startKey,
                                                                m.data.endKey),
                                     PassesAtMost(m.data.endKey), m.data.startKey,
                                     m.data.endKey)).animationSteps) >>
                   ELSE << Failed("Cannot read properties of undefined (reading 'x')") >>
         ELSE << Failed("Unknown message type: " \o m.type) >>

\* The main thread posts a message to the worker.
deliver(m) ==
    /\ Len(inbox) < MaxMessages
    /\ inbox' = Append(inbox, m)
    /\ UNCHANGED <<nodes, edges, pc, call, searchVars, result, generatorVars,
                   handled, outbox>>

\* self.onmessage runs for the oldest message not yet handled.
onmessage ==
    /\ handled < Len(inbox)
    /\ handled' = handled + 1
    /\ outbox' = outbox \o Replies(inbox[handled + 1])
    /\ UNCHANGED <<nodes, edges, pc, call, searchVars, result, generatorVars,
                   inbox>>

WorkerTerrains == {"unit", "moat"}

InitWorker ==
    /\ \E width \in 1..MaxW, t \in WorkerTerrains :
          /\ nodes = GridNodes(width, MaxH,
                               [c \in Cells(width, MaxH) |->
                                   TerrainWeight(t, c[1], c[2], width, MaxH)])
          /\ edges = TestEdges(width, MaxH, t)
    /\ Idle

NextWorker ==
    \/ \E m \in Messages : deliver(m)
    \/ onmessage

SpecWorker == InitWorker /\ [][NextWorker]_vars

\* The reply the claim expects for e.data = m.
ExpectedReplyType(m) ==
    IF /\ m.kind = "object"
       /\ m.type = "COMPUTE_DIJKSTRA"
       /\ m.data.kind = "object"
       /\ m.data.startKey \in DOMAIN nodes
       /\ m.data.endKey \in DOMAIN nodes
    THEN "DIJKSTRA_COMPLETE"
    ELSE "DIJKSTRA_ERROR"

\* C15 (as stated): for every message the handler has run for, exactly one
\* reply has been posted, DIJKSTRA_COMPLETE when the type is COMPUTE_DIJKSTRA
\* and the search returned and DIJKSTRA_ERROR otherwise, in the order the
\* messages were received.
C15_OneReplyPerMessage ==
    /\ Len(outbox) = handled
    /\ \A i \in 1 .. Len(outbox) : outbox[i].type = ExpectedReplyType(inbox[i])

----------------------------------------------------------------------------
(* The animated search on keys the graph does not hold *)

\* A call of dijkstraGraphAnimated with a start key or an end key that is
\* not in the graph has ended.
AnimatedOnAbsentKeyEnded ==
    /\ call.op = "dijkstraGraphAnimated"
    /\ pc \notin {"idle", "dijkstraGraphAnimated"}
    /\ (call.startKey \notin DOMAIN nodes \/ call.endKey \notin DOMAIN nodes)

\* C16 (as stated): dijkstraGraphAnimated called with a start key or an end
\* key absent from the graph returns a step sequence with no complete step
\* instead of raising an error.
C16_AbsentKeyReturnsSteps ==
    AnimatedOnAbsentKeyEnded =>
        /\ pc = "returned"
        /\ \A i \in 1 .. Len(animationSteps) : animationSteps[i].type # "complete"

----------------------------------------------------------------------------
(* The queue specification: a PriorityQueue on its own, enqueue and dequeue *)
(* called in any order, with entries that share priorities.                 *)

QueueElements == {"a", "b"}
QueuePriorities == {1, 2, 3}

InitQueue ==
    /\ nodes = EmptyMap
    /\ edges = EmptyMap
    /\ Idle

\* pq.enqueue(element, priority), on a queue of fewer than MaxQueue entries.
enqueueCall(element, priority) ==
    /\ Len(pq) < MaxQueue
    /\ pq' = enqueue(pq, element, priority)
    /\ call' = [op |-> "enqueue", size |-> Len(pq)]
    /\ result' = Undefined
    /\ UNCHANGED <<nodes, edges, pc, gCost, previous, visited, nodesExplored,
                   maxNodesToExplore, animationSteps, lastVisitedSize,
                   generatorVars, workerVars>>

\* pq.dequeue(), on any queue, the empty one included; size is the length of
\* the heap the call found.
dequeueCall ==
    /\ pq' = dequeue(pq).heap
    /\ call' = [op |-> "dequeue", size |-> Len(pq)]
    /\ result' = dequeue(pq).min
    /\ UNCHANGED <<nodes, edges, pc, gCost, previous, visited, nodesExplored,
                   maxNodesToExplore, animationSteps, lastVisitedSize,
                   generatorVars, workerVars>>

NextQueue ==
    \/ \E element \in QueueElements, priority \in QueuePriorities :
          enqueueCall(element, priority)
    \/ dequeueCall

SpecQueue == InitQueue /\ [][NextQueue]_vars

\* Every entry's priority is <= the priorities of its children at indices
\* 2i + 1 and 2i + 2.
HeapOrder(heap) ==
    \A i \in 0 .. Len(heap) - 1 :
        /\ 2 * i + 1 < Len(heap) => heap[i + 1].priority <= heap[2 * i + 2].priority
        /\ 2 * i + 2 < Len(heap) => heap[i + 1].priority <= heap[2 * i + 3].priority

\* How many times the entry is in the heap.
Occurrences(heap, entry) == Cardinality({i \in 1 .. Len(heap) : heap[i] = entry})

\* A dequeue step: from the empty queue null is returned and the queue stays
\* empty; otherwise exactly one entry leaves the queue, it is the one
\* returned, and no entry that stays has a smaller priority.
DequeueRemovesMinimum ==
    call'.op = "dequeue" =>
        IF Len(pq) = 0
        THEN result' = Null /\ pq' = <<>>
        ELSE /\ Len(pq') = Len(pq) - 1
             /\ \A i \in 1 .. Len(pq) :
                   Occurrences(pq', pq[i]) =
                       Occurrences(pq, pq[i]) - (IF pq[i] = result' THEN 1 ELSE 0)
             /\ \A i \in 1 .. Len(pq') : result'.priority <= pq'[i].priority

\* C17: after any sequence of enqueue and dequeue calls the heap order holds;
\* dequeue on a non-empty queue removes exactly one entry, whose priority is
\* <= the priority of every entry that remains; dequeue on an empty queue
\* returns null and leaves the queue empty.
C17_HeapOrderAndMinimum ==
    /\ [](HeapOrder(pq))
    /\ [][DequeueRemovesMinimum]_vars

\* A dequeue has taken the minimum from a queue of MaxQueue entries in which
\* the root's place had to be refilled through two levels.
C17_Witness ==
    /\ call.op = "dequeue"
    /\ call.size >= 5
    /\ result.priority < pq[1].priority
    /\ pq[1].priority < pq[2].priority
    /\ pq[3].priority < pq[2].priority
    /\ pq[2].priority = pq[4].priority

----------------------------------------------------------------------------
(* The medium specification: every search on the small test graphs, and one *)
(* search each on two grids of more than 50 nodes, where the near-goal      *)
(* rules of the two loops come into play:                                   *)
(*   18 x 17 summit (306 nodes), dijkstraGraph from "14,15" to "17,16"      *)
(*   6 x 9 unit (54 nodes), dijkstraGraphAnimated from "0,0" to "5,8"       *)

MidGrids ==
    {[width |-> 18, height |-> 17, terrain |-> "summit", op |-> "dijkstraGraph",
      startKey |-> NodeKey(14, 15), endKey |-> NodeKey(17, 16)],
     [width |-> 6, height |-> 9, terrain |-> "unit", op |-> "dijkstraGraphAnimated",
      startKey |-> NodeKey(0, 0), endKey |-> NodeKey(5, 8)]}

InitMid ==
    \/ Init
    \/ /\ \E g \in MidGrids :
             /\ nodes = GridNodes(g.width, g.height,
                                  [c \in Cells(g.width, g.height) |->
                                      TerrainWeight(g.terrain, c[1], c[2],
                                                    g.width, g.height)])
             /\ edges = GridEdges(g.width, g.height)
       /\ Idle

\* The graph is the grid g.
OnGrid(g) ==
    /\ Cardinality(DOMAIN nodes) = g.width * g.height
    /\ NodeKey(g.width - 1, g.height - 1) \in DOMAIN nodes

\* The (start, end) pairs op is called with: every pair on a small graph,
\* the pair of the grid on a medium one.
CallsOf(op) ==
    IF \E g \in MidGrids : OnGrid(g)
    THEN {<<g.startKey, g.endKey>> : g \in {m \in MidGrids : OnGrid(m) /\ m.op = op}}
    ELSE CallKeys \X CallKeys

NextMid ==
    \/ \E c \in CallsOf("findShortestGraphPath") : findShortestGraphPath(c[1], c[2])
    \/ \E c \in CallsOf("dijkstraGraph") : dijkstraGraphCall(c[1], c[2])
    \/ dijkstraGraphLoop
    \/ dijkstraGraphExit
    \/ \E c \in CallsOf("dijkstraGraphAnimated") : dijkstraGraphAnimated(c[1], c[2])
    \/ dijkstraGraphAnimatedLoop
    \/ dijkstraGraphAnimatedExit
    \/ ReturnToCaller

SpecMid == InitMid /\ [][NextMid]_vars

\* A batch run: dijkstraGraph called directly or by findShortestGraphPath.
BatchRun ==
    /\ call.op \in {"dijkstraGraph", "findShortestGraphPath"}
    /\ pc \in {"dijkstraGraph", "returned"}

\* A step of a batch run leaves the budget as it is or lowers it.
BudgetNeverRaised ==
    (pc = "dijkstraGraph" /\ call' = call) => maxNodesToExplore' <= maxNodesToExplore

\* C18 (as stated): in every batch run the number of nodes popped and newly
\* closed never exceeds min(1000, 0.5 x node_count), and the budget never
\* increases during the run.
C18_ExploredWithinBudget ==
    /\ [](BatchRun => 2 * nodesExplored <= InitialBudget)
    /\ [][BudgetNeverRaised]_vars

\* C18 (amended): the number of nodes popped and newly closed stays below
\* min(1000, 0.5 x node_count) + 1 (the budget rounded up), and the budget
\* never increases during the run, the tightening rule included.
C18_ExploredBelowBudgetPlusOne ==
    /\ [](BatchRun => /\ 2 * nodesExplored < InitialBudget + 2
                      /\ maxNodesToExplore <= InitialBudget)
    /\ [][BudgetNeverRaised]_vars

\* The tightening rule has fired and lowered the budget: more than 50 nodes
\* are closed and the budget is below min(1000, 0.5 x node_count).
C18_Witness ==
    /\ BatchRun
    /\ nodesExplored > 50
    /\ maxNodesToExplore < InitialBudget
    /\ 2 * nodesExplored < maxNodesToExplore

----------------------------------------------------------------------------
(* The animated search on graphs of more than 50 nodes *)

\* dijkstraGraphAnimated has returned from a graph that is a whole grid
\* (every node can be reached from every other), below the step cap.
AnimatedReturnedBelowCap ==
    /\ call.op = "dijkstraGraphAnimated"
    /\ pc = "returned"
    /\ edges = GridEdges(GraphWidth, GraphHeight)
    /\ Len(animationSteps) < MAX_ANIMATION_STEPS

\* C19 (as stated): on every connected graph on which the 1500-step cap is
\* not reached, graphs of more than 50 nodes where the near-goal queue
\* rebuild fires included, the returned sequence ends with a complete step
\* for the end key.
C19_ConnectedGraphCompletes ==
    AnimatedReturnedBelowCap =>
        /\ animationSteps[Len(animationSteps)].type = "complete"
        /\ animationSteps[Len(animationSteps)].current = call.endKey

\* A pass of the animated loop in which the queue is rebuilt: a key other
\* than the end key is closed within 3 steps of the goal, as the 51st or a
\* later one.
RebuildPass ==
    /\ pc = "dijkstraGraphAnimated"
    /\ call' = call
    /\ Len(visited') = Len(visited) + 1
    /\ Len(visited') > 50
    /\ visited'[Len(visited')] # call.endKey
    /\ Manhattan(visited'[Len(visited')], call.endKey) <= 3

\* The keys of the entries of a heap.
QueuedKeys(heap) == {heap[i].element : i \in 1 .. Len(heap)}

\* C20 (as stated): the queue rebuild keeps the open frontier: every key
\* that was in the queue before the rebuild and is not closed is still in
\* the queue after it.
C20_RebuildKeepsFrontier ==
    [][RebuildPass =>
          \A k \in QueuedKeys(pq) :
              ~InSeq(k, visited') => k \in QueuedKeys(pq')]_vars

----------------------------------------------------------------------------
(* The closed set *)

\* A search loop is running.
InSearchLoop == pc \in {"dijkstraGraph", "dijkstraGraphAnimated"}

\* No key is in the sequence twice.
NoRepeats(s) == \A i \in 1 .. Len(s) : \A j \in 1 .. Len(s) : s[i] = s[j] => i = j

\* A pass of either loop that pops a key already closed: nothing but the
\* queue changes.
StalePopDiscarded ==
    (/\ InSearchLoop /\ call' = call /\ pq # <<>> /\ pq' # pq
     /\ InSeq(pq[1].element, visited))
        => /\ visited' = visited
           /\ nodesExplored' = nodesExplored
           /\ maxNodesToExplore' = maxNodesToExplore
           /\ animationSteps' = animationSteps
           /\ gCost' = gCost
           /\ previous' = previous
           /\ pq' = dequeue(pq).heap

\* A step of a run leaves the closed keys closed and their gCost and previous
\* entries as they are.
ClosedEntriesKept ==
    (InSearchLoop /\ call' = call)
        => \A i \in 1 .. Len(visited) :
              /\ i <= Len(visited') /\ visited'[i] = visited[i]
              /\ gCost'[visited[i]] = gCost[visited[i]]
              /\ previous'[visited[i]] = previous[visited[i]]

\* C21: in both search modes a node is closed at most once; a popped key that
\* is already closed is discarded without expansion, without counting
\* against the budget and without a step; the gCost and previous entries of a
\* closed node never change for the rest of the run.
C21_ClosedOnceAndFinal ==
    /\ [](NoRepeats(visited))
    /\ [][StalePopDiscarded]_vars
    /\ [][ClosedEntriesKept]_vars

\* Stale entries have been popped and discarded: after the queue rebuild the
\* queue held every closed key, it now holds fewer, and the entry at its
\* head is closed as well.
C21_Witness ==
    /\ pc = "dijkstraGraphAnimated"
    /\ Len(visited) > 50
    /\ Len(pq) > 0
    /\ Len(pq) < Len(visited)
    /\ InSeq(pq[1].element, visited)
    /\ Len(animationSteps) = Len(visited) + 1

----------------------------------------------------------------------------
(* Costs and predecessor links *)

\* Every link previous(n) = p that is set leads to a closed node p of which n
\* is a neighbour, and gCost(n) = gCost(p) + weight(n).
LinksCarryCost ==
    \A n \in DOMAIN previous :
        previous[n] # Null =>
            /\ InSeq(previous[n], visited)
            /\ InSeq(n, ConnectionsOf(previous[n]))
            /\ gCost[n] = gCost[previous[n]] + nodes[n].weight

\* A step of a run raises no gCost.
CostNeverRaised ==
    (InSearchLoop /\ call' = call)
        => \A k \in DOMAIN gCost : gCost'[k] <= gCost[k]

\* The sum of the weights of path[i], ..., path[Len(path)].
RECURSIVE WeightFrom(_, _)
WeightFrom(path, i) ==
    IF i > Len(path) THEN 0 ELSE nodes[path[i]].weight + WeightFrom(path, i + 1)

\* C22: at every point of a batch or animated run, every set link
\* previous(n) = p has p closed, n a neighbour of p and
\* gCost(n) = gCost(p) + weight(n); no gCost ever increases; and when
\* findShortestGraphPath returns pathExists = true, distance is the sum of
\* the weights of the path's nodes except the first.
C22_CostIsSumAlongLinks ==
    /\ []((call.op \in SearchOps /\ pc # "threw") => LinksCarryCost)
    /\ [][CostNeverRaised]_vars
    /\ []((FacadeReturned /\ result.pathExists)
             => result.distance = WeightFrom(result.path, 2))

\* A path over nodes of different weights has been returned, with links set
\* on it.
C22_Witness ==
    /\ FacadeReturned
    /\ result.pathExists
    /\ Len(result.path) >= 4
    /\ nodes[result.path[2]].weight # nodes[result.path[3]].weight
    /\ previous[result.path[4]] = result.path[3]
    /\ result.distance = WeightFrom(result.path, 2)

----------------------------------------------------------------------------
(* The search radius of the batch search *)

\* The keys whose Manhattan distance from start exceeds 1.5 x
\* Manhattan(start, goal).
BeyondRadius ==
    {k \in DOMAIN nodes :
        2 * Manhattan(k, call.startKey) > 3 * Manhattan(call.startKey, call.endKey)}

\* dijkstraGraph is running or has returned, called directly or by
\* findShortestGraphPath with two different keys of the graph.
BatchSearched ==
    /\ call.op \in {"dijkstraGraph", "findShortestGraphPath"}
    /\ pc \in {"dijkstraGraph", "returned"}
    /\ call.startKey \in DOMAIN nodes
    /\ call.endKey \in DOMAIN nodes
    /\ (call.op = "findShortestGraphPath" => call.startKey # call.endKey)

\* C23: in batch mode a node farther from start than 1.5 x
\* Manhattan(start, goal) never receives a gCost or previous entry, is never
\* enqueued or closed and never appears in a returned path, while start and
\* goal are always initialized.
C23_BeyondRadiusUntouched ==
    BatchSearched =>
        /\ \A k \in BeyondRadius :
              /\ k \notin DOMAIN gCost
              /\ k \notin DOMAIN previous
              /\ k \notin QueuedKeys(pq)
              /\ ~InSeq(k, visited)
              /\ (call.op = "findShortestGraphPath" /\ pc = "returned")
                    => ~InSeq(k, result.path)
        /\ {call.startKey, call.endKey} \subseteq DOMAIN gCost
        /\ {call.startKey, call.endKey} \subseteq DOMAIN previous

\* A search between neighbouring keys has closed a node on the rim of the
\* radius whose neighbour beyond it was passed over.
C23_Witness ==
    /\ BatchSearched
    /\ \E k \in BeyondRadius : \E i \in 1 .. Len(visited) :
          InSeq(k, ConnectionsOf(visited[i]))

----------------------------------------------------------------------------
(* The step sequence of the animated search *)

\* dijkstraGraphAnimated is running or has returned.
AnimatedRun ==
    /\ call.op = "dijkstraGraphAnimated"
    /\ pc \in {"dijkstraGraphAnimated", "returned"}

\* The places of the explore steps in the sequence.
ExploreSteps(steps) == {i \in 1 .. Len(steps) : steps[i].type = "explore"}

\* steps has the shape init, explore*, complete?.
StepShape(steps, startKey, endKey) ==
    /\ Len(steps) >= 1
    /\ steps[1].type = "init"
    /\ steps[1].current = startKey
    /\ \A i \in 2 .. Len(steps) : steps[i].type \in {"explore", "complete"}
    /\ \A i \in ExploreSteps(steps) : \A j \in ExploreSteps(steps) :
          steps[i].current = steps[j].current => i = j
    /\ \A i \in ExploreSteps(steps) : steps[i].visitedCount = i - 1
    /\ \A i \in 2 .. Len(steps) :
          steps[i].type = "complete" =>
              /\ i = Len(steps)
              /\ steps[i - 1].type = "explore"
              /\ steps[i - 1].current = endKey
              /\ steps[i].current = endKey

\* C24: the step sequence of dijkstraGraphAnimated has the shape init,
\* explore*, complete?: exactly one init step, the first, whose current is
\* start; no key is the current of two explore steps; the k-th explore step
\* has visitedCount = k; a complete step occurs at most once, as the last
\* step, right after the explore step whose current is the end key.
C24_StepsAreInitExploresComplete ==
    AnimatedRun => StepShape(animationSteps, call.startKey, call.endKey)

\* A run of several explore steps has ended with its complete step.
C24_Witness ==
    /\ AnimatedRun
    /\ pc = "returned"
    /\ Len(animationSteps) >= 6
    /\ animationSteps[Len(animationSteps)].type = "complete"

----------------------------------------------------------------------------
(* The paths the steps carry *)

\* path leads from startKey to current along edges of the graph and holds no
\* key twice.
PathFromTo(path, startKey, current) ==
    /\ Len(path) >= 1
    /\ path[1] = startKey
    /\ path[Len(path)] = current
    /\ IsWalk(path)
    /\ NoRepeats(path)

\* The path reconstructGraphPath gives for the current of the step when the
\* step is stored: the chain of previous links (the links of a closed node
\* stay as they are for the rest of the run).
StepChain(step) == reconstructGraphPath(previous, call.startKey, step.current).path

\* C25: the currentPath of every explore step and of the complete step is a
\* path from start to the step's current: first element start, last element
\* current, consecutive keys joined by an edge, no key repeated; the
\* fallback [start] is used only when current is start.
C25_StepPathsLeadToCurrent ==
    AnimatedRun =>
        \A i \in 2 .. Len(animationSteps) :
            /\ PathFromTo(animationSteps[i].currentPath, call.startKey,
                          animationSteps[i].current)
            /\ (Len(StepChain(animationSteps[i])) = 0)
                  => animationSteps[i].current = call.startKey

\* A step carries a path of four keys or more.
C25_Witness ==
    /\ AnimatedRun
    /\ \E i \in 2 .. Len(animationSteps) :
          /\ Len(animationSteps[i].currentPath) >= 4
          /\ animationSteps[i].currentPath[1] = call.startKey
          /\ animationSteps[i].current # call.startKey

----------------------------------------------------------------------------
(* The band specification: the weight of one cell, lines 194-220, for every *)
(* noise value of [-1, 1] in thousandths, with a road noise that clamps and *)
(* one that does not.                                                       *)

BandNoise == -1000 .. 1000
BandRoads == {0, 300}

InitBand ==
    /\ nodes = EmptyMap
    /\ edges = EmptyMap
    /\ Idle

\* Lines 194-220 for one cell: the band policy, the road clamp and the floor.
assignWeight(noiseValue, road) ==
    /\ Callable
    /\ call' = [op |-> "assignWeight", noiseValue |-> noiseValue, road |-> road]
    /\ NoSearchState
    /\ result' = MathMax(Milli(100), BandWeight(noiseValue, road))
    /\ pc' = "returned"
    /\ UNCHANGED <<nodes, edges, generatorVars, workerVars>>

NextBand ==
    \/ \E noiseValue \in BandNoise, road \in BandRoads : assignWeight(noiseValue, road)
    \/ ReturnToCaller

SpecBand == InitBand /\ [][NextBand]_vars

\* The interval the band of noiseValue is given: lo and hi.
BandInterval(noiseValue) ==
    IF noiseValue < -300 THEN [lo |-> Milli(100), hi |-> Milli(250)]
    ELSE IF noiseValue < 100 THEN [lo |-> Milli(500), hi |-> Milli(750)]
    ELSE IF noiseValue < 400 THEN [lo |-> Milli(2000), hi |-> Milli(5000)]
    ELSE [lo |-> Milli(8000), hi |-> Milli(25000)]

\* C26 (as stated): for every noise value n of [-1, 1], with no road clamp,
\* the weight lies inside the interval of the band n falls in: [0.1, 0.25]
\* for n < -0.3, [0.5, 0.75] for -0.3 <= n < 0.1, [2.0, 5.0] for
\* 0.1 <= n < 0.4, [8.0, 25.0] for n >= 0.4.
C26_WeightInsideBand ==
    (/\ call.op = "assignWeight"
     /\ pc = "returned"
     /\ Abs(call.road) >= 50)
        => /\ result >= BandInterval(call.noiseValue).lo
           /\ result <= BandInterval(call.noiseValue).hi

-----------------------------------------------------------------------------
(* The generator specification: new PerlinNoise(seed), lines 63-91, one pass *)
(* of the shuffle loop at a time, for the seeds -MaxSeed .. MaxSeed.         *)

MaxSeed == 8

PerlinSeeds == (0 - MaxSeed) .. MaxSeed

InitPerlin ==
    /\ nodes = EmptyMap
    /\ edges = EmptyMap
    /\ Idle

\* The constructor and lines 69-72: this.seed = seed, p = [0, ..., 255].
\* at and j are the position and the index of the last swap (none yet).
newPerlinNoise(seed) ==
    /\ Callable
    /\ call' = [op |-> "PerlinNoise", seed |-> seed]
    /\ NoSearchState
    /\ result' = [seed |-> seed, permutation |-> [k \in 0 .. 255 |-> k],
                  i |-> 255, at |-> 0, j |-> 0]
    /\ pc' = "generatePermutation"
    /\ UNCHANGED <<nodes, edges, generatorVars, workerVars>>

\* Lines 74-77: one pass of the shuffle loop, at position result.i.
generatePermutationPass ==
    /\ pc = "generatePermutation"
    /\ result.i > 0
    /\ \E g \in {shuffleStep(result, result.i)} :
          result' = [seed |-> g.seed, permutation |-> g.permutation,
                     i |-> result.i - 1, at |-> result.i,
                     j |-> swapIndex(g.seed, result.i)]
    /\ UNCHANGED <<nodes, edges, pc, call, searchVars, generatorVars, workerVars>>

\* Lines 80-85: the loop is over, p[256 + i] = p[i] for i = 0 .. 255, and the
\* array is returned.
generatePermutationReturn ==
    /\ pc = "generatePermutation"
    /\ result.i = 0
    /\ result' = [result EXCEPT !.permutation =
                     [k \in DOMAIN result.permutation \cup (256 .. 511) |->
                         IF k >= 256 THEN result.permutation[k - 256]
                                     ELSE result.permutation[k]]]
    /\ perlin' = <<result.seed>>
    /\ pc' = "returned"
    /\ UNCHANGED <<nodes, edges, call, searchVars, generated, workerVars>>

NextPerlin ==
    \/ \E seed \in PerlinSeeds : newPerlinNoise(seed)
    \/ generatePermutationPass
    \/ generatePermutationReturn
    \/ ReturnToCaller

SpecPerlin == InitPerlin /\ [][NextPerlin]_vars

\* The instance of the running or the last new PerlinNoise(seed) call.
PerlinInstance == call.op = "PerlinNoise" /\ pc \in {"generatePermutation", "returned"}

\* The last draw left the state in [0, 233280) (the value returned is the
\* state divided by 233280, so it lies in [0, 1)) and gave an index j of
\* 0 .. i for the position i it was drawn for.
DrawInRange ==
    result.at > 0 =>
        /\ result.seed >= 0
        /\ result.seed < Modulus
        /\ result.j >= 0
        /\ result.j <= result.at

\* The array holds the keys 0 .. 255 and nothing else while it is shuffled,
\* every value of 0 .. 255 once; on return it is that array twice over.
TableIsPermutation ==
    /\ DOMAIN result.permutation = (IF pc = "returned" THEN 0 .. 511 ELSE 0 .. 255)
    /\ {result.permutation[k] : k \in 0 .. 255} = 0 .. 255
    /\ pc = "returned" =>
          \A k \in 0 .. 255 : result.permutation[256 + k] = result.permutation[k]

\* C27 (as stated): for every integer seed, positive, zero or negative, every
\* draw leaves the state in [0, 233280) and returns a value of [0, 1), every
\* swap index j drawn for position i has 0 <= j <= i, and the table is a
\* permutation of 0 .. 255 duplicated to length 512.
C27_EverySeedGivesPermutation ==
    PerlinInstance => (DrawInRange /\ TableIsPermutation)

\* The same for the seeds from -5 upwards only: seed * 9301 + 49297 is
\* positive for them, and so is every state after the first draw.
SeedsFromMinusFiveGivePermutation ==
    (PerlinInstance /\ call.seed >= -5) => (DrawInRange /\ TableIsPermutation)

-----------------------------------------------------------------------------
(* The predecessor links *)

\* The key at which the chain of previous links from key ends (the first key
\* with no predecessor), or "cycle" when the chain comes back to a key it has
\* passed.
RECURSIVE ChainEnd(_, _, _)
ChainEnd(prev, key, seen) ==
    IF key \in seen
    THEN "cycle"
    ELSE IF ~Truthy(MapGet(prev, key))
         THEN key
         ELSE ChainEnd(prev, prev[key], seen \cup {key})

\* A search is running or has returned.
SearchRun ==
    /\ call.op \in {"dijkstraGraph", "dijkstraGraphAnimated", "findShortestGraphPath"}
    /\ pc \in {"dijkstraGraph", "dijkstraGraphAnimated", "returned"}

\* No chain of previous links passes a key twice.
PreviousAcyclic ==
    \A n \in DOMAIN previous : ChainEnd(previous, n, {}) # "cycle"

\* start has no predecessor.
StartHasNoPredecessor ==
    call.startKey \in DOMAIN previous => previous[call.startKey] = Null

\* The chain from every closed key ends at start.
ClosedChainsEndAtStart ==
    \A i \in 1 .. Len(visited) : ChainEnd(previous, visited[i], {}) = call.startKey

\* C28: in every reachable state of both search modes the previous links are
\* acyclic (the chain from any node visits no node twice and ends at a node
\* with no predecessor), start never acquires a predecessor, and the chain
\* from every closed node ends at start; hence the walk back of
\* reconstructGraphPath halts on every previous map the searches produce.
C28_PreviousLinksAcyclic ==
    /\ SearchRun => (PreviousAcyclic /\ StartHasNoPredecessor /\ ClosedChainsEndAtStart)
    /\ call.op \in {"dijkstraGraph", "dijkstraGraphAnimated", "findShortestGraphPath"}
          => pc # "hung"

\* A search under way has closed many nodes and set links of some depth: the
\* chain from the node closed last passes three nodes at least before start.
C28_Witness ==
    /\ InSearchLoop
    /\ Len(visited) > 20
    /\ previous[visited[Len(visited)]] # Null
    /\ previous[previous[visited[Len(visited)]]] # Null
    /\ previous[previous[previous[visited[Len(visited)]]]] # Null
    /\ ChainEnd(previous, visited[Len(visited)], {}) = call.startKey

-----------------------------------------------------------------------------
(* The unit-grid specification: findShortestGraphPath between every two     *)
(* nodes of every full grid of up to MaxUnit x MaxUnit nodes of weight 1.   *)

MaxUnit == 6

InitUnit ==
    /\ \E width \in 1 .. MaxUnit, height \in 1 .. MaxUnit :
          /\ nodes = GridNodes(width, height,
                               [c \in Cells(width, height) |-> Milli(1000)])
          /\ edges = GridEdges(width, height)
    /\ Idle

NextUnit ==
    \/ \E s \in DOMAIN nodes, e \in DOMAIN nodes : findShortestGraphPath(s, e)
    \/ dijkstraGraphLoop
    \/ dijkstraGraphExit
    \/ ReturnToCaller

SpecUnit == InitUnit /\ [][NextUnit]_vars

\* C29: on every 4-directional grid in which every node has weight 1, whenever
\* findShortestGraphPath returns pathExists = true (also when the budget ran
\* out before the goal was popped), the distance returned is the Manhattan
\* distance between start and end, and the path has distance + 1 nodes.
C29_UnitGridDistanceIsManhattan ==
    (FacadeReturned /\ UnitGrid /\ result.pathExists)
        => /\ result.distance = Manhattan(call.startKey, call.endKey) * Milli(1000)
           /\ Len(result.path) = Manhattan(call.startKey, call.endKey) + 1

\* A path was returned although the budget ran out before the goal was
\* popped, between two nodes that share neither row nor column.
C29_Witness ==
    /\ FacadeReturned
    /\ UnitGrid
    /\ result.pathExists
    /\ call.startKey # call.endKey
    /\ ~InSeq(call.endKey, visited)
    /\ ~BudgetLeft
    /\ nodes[call.startKey].x # nodes[call.endKey].x
    /\ nodes[call.startKey].y # nodes[call.endKey].y
    /\ Manhattan(call.startKey, call.endKey) >= 4
    /\ Len(result.path) = Manhattan(call.startKey, call.endKey) + 1

-----------------------------------------------------------------------------
(* Termination.  A call runs to its end without interruption, so a pass of  *)
(* a loop whose condition holds is taken, and so is the exit of a loop      *)
(* whose condition fails: the searches of the middle specification under    *)
(* weak fairness of the loop and exit steps.                                *)

SpecMidFair ==
    /\ SpecMid
    /\ WF_vars(dijkstraGraphLoop)
    /\ WF_vars(dijkstraGraphExit)
    /\ WF_vars(dijkstraGraphAnimatedLoop)
    /\ WF_vars(dijkstraGraphAnimatedExit)

\* A pass that leaves the search in its loop either closes one more node or
\* is a stale pop: nothing is closed and the queue is one entry shorter.
PassMakesProgress ==
    (InSearchLoop /\ pc' = pc /\ call' = call)
        => \/ Len(visited') = Len(visited) + 1
           \/ /\ visited' = visited
              /\ Len(pq') = Len(pq) - 1

\* No more nodes are closed than the graph holds.
ClosedAreNodes ==
    InSearchLoop => /\ NoRepeats(visited)
                    /\ \A i \in 1 .. Len(visited) : visited[i] \in DOMAIN nodes

\* C30: dijkstraGraph and dijkstraGraphAnimated terminate on every finite
\* graph with positive weights and endpoints present in it: the loop makes
\* finitely many pops, the stale pops and the entries the animated queue
\* rebuild puts back included.  Every pass closes a node of the graph not
\* closed before or shortens the queue, and every search under way returns.
C30_SearchesTerminate ==
    /\ [](ClosedAreNodes)
    /\ [][PassMakesProgress]_vars
    /\ (InSearchLoop ~> pc = "returned")

\* An animated search has returned after a queue rebuild: the node closed
\* last, within 3 of the goal and after 50 others, had the queue rebuilt from
\* the closed keys, and every entry of it has been popped since.
C30_Witness ==
    /\ pc = "returned"
    /\ call.op = "dijkstraGraphAnimated"
    /\ Len(visited) > 50
    /\ Manhattan(visited[Len(visited)], call.endKey) <= 3
    /\ ~InSeq(call.endKey, visited)
    /\ pq = <<>>

====
